---- MODULE Spec2Model ----
(***************************************************************************)
(* Generic Nibble Trie (gnt.c) and its unguarded twin (gbt.c).             *)
(*                                                                         *)
(* The node graph is a heap of NibbleLayers and ByteNodes.  A block keeps  *)
(* the fields of its C struct: the children counter, the 16 slots, and for *)
(* a ByteNode the occupied flag and the payload.  calloc names a new block *)
(* after the slot it is stored in (the bytes consumed so far, plus the     *)
(* high nibble for a NibbleLayer); free removes the block from the heap.   *)
(* Keys are C strings read through gnt_accessor_string.                    *)
(***************************************************************************)
EXTENDS Integers, Sequences, FiniteSets, TLC

\* ------------------------------------------------------------------ bounds
MaxOps == 4

\* --------------------------------------------------------------- constants
NSlots == 16
END == 0
CONTINUE == 1
STOP == 2

NULL == <<>>
Slots == 0 .. (NSlots - 1)

\* The key strings of the model.  'a' = 0x61 and 'b' = 0x62 share the high
\* nibble 6, 'q' = 0x71 has the high nibble 7.  "a" is a proper prefix of
\* "aa", "ab", "aq" and "aba"; "aa" and "ab" share the NibbleLayer below "a",
\* "aq" has its own; "aba" is three levels deep.
KeyStrings ==
    {<<97>>, <<98>>, <<113>>,
     <<97, 97>>, <<97, 98>>, <<97, 113>>,
     <<97, 98, 97>>}

\* The keys handed to the trie: the NUL-terminated strings.
Keys == {Append(s, 0) : s \in KeyStrings}

\* The payloads handed to gnt_insert: opaque non-zero values, two of them so
\* that an overwrite can tell the old payload from the new one.
Data == {1, 2}

GNT_HIGH_NIBBLE(byte) == byte \div 16
GNT_LOW_NIBBLE(byte) == byte % 16

\* uint8_t arithmetic of the children counters
U8(n) == n % 256

\* --------------------------------------------------------------- accessors
strlen(str) == (CHOOSE i \in 1 .. Len(str) :
                   str[i] = 0 /\ \A j \in 1 .. (i - 1) : str[j] # 0) - 1

gnt_accessor_string(key, index) ==
    IF index >= strlen(key)
    THEN [status |-> -1, byte |-> NULL]
    ELSE [status |-> 0, byte |-> key[index + 1]]

\* do { digits++; temp >>= 8; } while (temp > 0);  with uint8_t digits
RECURSIVE gnt_digits(_, _)
gnt_digits(temp, digits) ==
    LET d == U8(digits + 1)
        t == temp \div 256
    IN IF t > 0 THEN gnt_digits(t, d) ELSE d

\* for (uint8_t i = 0; i < n; i++) key >>= 8;
RECURSIVE gnt_shift(_, _, _)
gnt_shift(key, i, n) ==
    IF i < n THEN gnt_shift(key \div 256, U8(i + 1), n) ELSE key

\* Mutant: the bytes are taken least-significant first.
_gnt_accessor_default_lsb(key, index) ==
    LET digits == gnt_digits(key, 0) IN
    IF index >= digits
    THEN [status |-> -1, byte |-> NULL]
    ELSE [status |-> 0, byte |-> gnt_shift(key, 0, index) % 256]

\* The accessor of a trie created without one: the base-256 bytes of the
\* integer key.
_gnt_accessor_default(key, index) ==
    LET digits == gnt_digits(key, 0) IN
    IF index >= digits
    THEN [status |-> -1, byte |-> NULL]
    ELSE [status |-> 0, byte |-> gnt_shift(key, 0, digits - index - 1) % 256]

\* do { digits++; temp /= 10; } while (temp > 0);  in gbt.c
RECURSIVE gbt_digits(_, _)
gbt_digits(temp, digits) ==
    LET d == U8(digits + 1)
        t == temp \div 10
    IN IF t > 0 THEN gbt_digits(t, d) ELSE d

\* for (uint8_t i = 0; i < n; i++) key /= 10;
RECURSIVE gbt_shift(_, _, _)
gbt_shift(key, i, n) ==
    IF i < n THEN gbt_shift(key \div 10, U8(i + 1), n) ELSE key

\* Mutant: the key is divided once too often before the digit is taken.
_gbt_accessor_default_off(key, index) ==
    LET digits == gbt_digits(key, 0) IN
    IF index >= digits
    THEN [status |-> -1, byte |-> NULL]
    ELSE [status |-> 0, byte |-> gbt_shift(key, 0, digits - index) % 10]

\* The default accessor of gbt.c: the decimal digits of the integer key.
_gbt_accessor_default(key, index) ==
    LET digits == gbt_digits(key, 0) IN
    IF index >= digits
    THEN [status |-> -1, byte |-> NULL]
    ELSE [status |-> 0, byte |-> gbt_shift(key, 0, digits - index - 1) % 10]

\* trie->accessor(&byte, key, index); byte = NULL means *byte was not written
accessor(t, key, index) ==
    CASE t.accessor = "default" -> _gnt_accessor_default(key, index)
      [] t.accessor = "decimal" -> _gbt_accessor_default(key, index)
      [] OTHER -> gnt_accessor_string(key, index)

\* The bytes of a key before the terminator: the name of its terminal ByteNode.
KeyBytes(key) == SubSeq(key, 1, strlen(key))

\* -------------------------------------------------------------------- heap
calloc_nibble == [children |-> 0, nodes |-> [i \in Slots |-> NULL]]
calloc_node ==
    [occupied |-> FALSE, children |-> 0, data |-> 0,
     nibbles |-> [i \in Slots |-> NULL]]

\* gnt_create: calloc'ed trie with the configured deallocator (or none)
gnt_create(dealloc) ==
    [trie |-> [children |-> 0, nibbles |-> [i \in Slots |-> NULL],
               accessor |-> "string", deallocator |-> dealloc],
     nibble |-> <<>>,
     node |-> <<>>,
     calls |-> <<>>,
     badfree |-> FALSE]

Remove(h, id) == [x \in (DOMAIN h) \ {id} |-> h[x]]

\* owner = NULL is the trie root, otherwise a ByteNode: owner->nibbles
NibblesOf(m, owner) ==
    IF owner = NULL THEN m.trie.nibbles ELSE m.node[owner].nibbles

ChildrenOf(m, owner) ==
    IF owner = NULL THEN m.trie.children ELSE m.node[owner].children

SetNibbleSlot(m, owner, high, v) ==
    IF owner = NULL
    THEN [m EXCEPT !.trie.nibbles[high] = v]
    ELSE [m EXCEPT !.node[owner].nibbles[high] = v]

SetChildren(m, owner, c) ==
    IF owner = NULL
    THEN [m EXCEPT !.trie.children = c]
    ELSE [m EXCEPT !.node[owner].children = c]

\* free(p) of a NibbleLayer; free(NULL) does nothing
free_nibble(m, p) ==
    IF p = NULL THEN m
    ELSE IF p \in DOMAIN m.nibble THEN [m EXCEPT !.nibble = Remove(@, p)]
    ELSE [m EXCEPT !.badfree = TRUE]

free_node(m, p) ==
    IF p = NULL THEN m
    ELSE IF p \in DOMAIN m.node THEN [m EXCEPT !.node = Remove(@, p)]
    ELSE [m EXCEPT !.badfree = TRUE]

\* deallocator(data), called for the payload stored in ByteNode n
deallocator(m, n) ==
    [m EXCEPT !.calls = Append(@, [node |-> n, data |-> m.node[n].data])]

\* ------------------------------------------------------------- gnt_insert
\* if (!nibbles[high_nibble]) { nibbles[high_nibble] = calloc(..); (*children)++; }
insert_nibble(m, owner, high) ==
    IF NibblesOf(m, owner)[high] = NULL
    THEN LET p == Append(owner, high)
             m1 == [m EXCEPT !.nibble = (p :> calloc_nibble) @@ @]
             m2 == SetNibbleSlot(m1, owner, high, p)
         IN SetChildren(m2, owner, U8(ChildrenOf(m2, owner) + 1))
    ELSE m

\* Mutant: the ByteNode is allocated without the test for an existing one.
insert_node_always(m, nib, low, p) ==
    LET m1 == [m EXCEPT !.node = (p :> calloc_node) @@ @]
    IN [m1 EXCEPT !.nibble[nib].nodes[low] = p,
                  !.nibble[nib].children =
                      IF m.nibble[nib].nodes[low] = NULL THEN U8(@ + 1) ELSE @]

\* if (!nodes[low_nibble]) { nodes[low_nibble] = calloc(..); (*children)++; }
insert_node(m, nib, low, p) ==
    IF m.nibble[nib].nodes[low] = NULL
    THEN LET m1 == [m EXCEPT !.node = (p :> calloc_node) @@ @]
         IN [m1 EXCEPT !.nibble[nib].nodes[low] = p,
                       !.nibble[nib].children = U8(@ + 1)]
    ELSE m

\* The while loop of gnt_insert from `index` on; owner holds the current
\* nibbles array and the counter `children` points to.  Returns the memory
\* and the terminal `node`.
RECURSIVE insert_walk(_, _, _, _)
insert_walk(m, owner, key, index) ==
    LET a == accessor(m.trie, key, index) IN
    IF a.status # 0 THEN [m |-> m, node |-> owner]
    ELSE LET high == GNT_HIGH_NIBBLE(a.byte)
             low == GNT_LOW_NIBBLE(a.byte)
             m1 == insert_nibble(m, owner, high)
             nib == NibblesOf(m1, owner)[high]
             m2 == insert_node(m1, nib, low, Append(owner, a.byte))
         IN insert_walk(m2, m2.nibble[nib].nodes[low], key, index + 1)

\* Mutant: the payload is stored before the deallocator is called.
insert_store_late(m, node, data) ==
    LET m1 == [m EXCEPT !.node[node].data = data]
        m2 == IF m.node[node].occupied /\ m.trie.deallocator
              THEN deallocator(m1, node)
              ELSE m1
    IN [m2 EXCEPT !.node[node].occupied = TRUE]

\* The deallocator is called on the old payload of an occupied node, then
\* the payload is stored.
insert_store(m, node, data) ==
    LET m1 == IF m.node[node].occupied /\ m.trie.deallocator
              THEN deallocator(m, node)
              ELSE m
    IN [m1 EXCEPT !.node[node].data = data, !.node[node].occupied = TRUE]

gnt_insert(m, key, data) ==
    LET w == insert_walk(m, NULL, key, 0)
    IN [m |-> insert_store(w.m, w.node, data), ret |-> 0]

\* ------------------------------------------------------------- gnt_search
RECURSIVE search_walk(_, _, _, _)
search_walk(m, owner, key, index) ==
    LET a == accessor(m.trie, key, index) IN
    IF a.status # 0 THEN m.node[owner].data
    ELSE LET high == GNT_HIGH_NIBBLE(a.byte)
             low == GNT_LOW_NIBBLE(a.byte)
             nib == NibblesOf(m, owner)[high]
         IN IF nib = NULL THEN 0
            ELSE IF m.nibble[nib].nodes[low] = NULL THEN 0
            ELSE search_walk(m, m.nibble[nib].nodes[low], key, index + 1)

gnt_search(m, key) == search_walk(m, NULL, key, 0)

\* Mutant: the search builds the missing part of the path as gnt_insert does.
search_call_creating(m, key) ==
    LET w == insert_walk(m, NULL, key, 0)
    IN [m |-> w.m, ret |-> w.m.node[w.node].data]

\* A call of gnt_search: the memory it leaves (it writes nothing) and the
\* payload it returns.
search_call(m, key) == [m |-> m, ret |-> gnt_search(m, key)]

\* ------------------------------------------------------------- gnt_delete
\* Mutant: the payload is not reset.
delete_clear_keepdata(m, node) ==
    LET m1 == IF m.trie.deallocator THEN deallocator(m, node) ELSE m
    IN [m1 EXCEPT !.node[node].occupied = FALSE]

\* END reached below `node`: release the payload and clear the node
delete_clear(m, node) ==
    LET m1 == IF m.trie.deallocator THEN deallocator(m, node) ELSE m
    IN [m1 EXCEPT !.node[node].data = 0, !.node[node].occupied = FALSE]

\* Mutant: the child count is not decremented.
delete_child_nibble_nodec(m, node, child_byte) ==
    LET high == GNT_HIGH_NIBBLE(child_byte)
        m1 == free_nibble(m, m.node[node].nibbles[high])
    IN [m1 EXCEPT !.node[node].nibbles[high] = NULL]

\* free(node->nibbles[HIGH(child_byte)]); slot = NULL; if (children) children--;
delete_child_nibble(m, node, child_byte) ==
    LET high == GNT_HIGH_NIBBLE(child_byte)
        m1 == free_nibble(m, m.node[node].nibbles[high])
        m2 == [m1 EXCEPT !.node[node].nibbles[high] = NULL]
    IN IF m2.node[node].children # 0
       THEN [m2 EXCEPT !.node[node].children = U8(@ - 1)]
       ELSE m2

\* Mutant: the pruning of the ByteNode is left out.
delete_node_keep(m, nibble, low) == m

\* free(nibble->nodes[low_nibble]); slot = NULL; nibble->children--;
delete_node(m, nibble, low) ==
    LET m1 == free_node(m, m.nibble[nibble].nodes[low])
    IN [m1 EXCEPT !.nibble[nibble].nodes[low] = NULL,
                  !.nibble[nibble].children = U8(@ - 1)]

\* Mutant: a terminal node that has children is left as it is, the
\* child count being tested before the payload is released.
delete_unwind_early(m, nibble, low, node, status, child_byte) ==
    IF status = STOP THEN [m |-> m, status |-> STOP]
    ELSE IF status = END /\ m.node[node].children # 0
    THEN [m |-> m, status |-> STOP]
    ELSE LET m1 == IF status = END THEN delete_clear(m, node) ELSE m
             m2 == delete_child_nibble(m1, node, child_byte)
         IN IF m2.node[node].children # 0
            THEN [m |-> m2, status |-> STOP]
            ELSE LET m3 == delete_node(m2, nibble, low) IN
                 IF m3.nibble[nibble].children # 0
                 THEN [m |-> m3, status |-> STOP]
                 ELSE [m |-> m3, status |-> CONTINUE]

\* Mutant: the test of the child count after the node is cleared is left out.
delete_unwind_nocheck(m, nibble, low, node, status, child_byte) ==
    IF status = STOP THEN [m |-> m, status |-> STOP]
    ELSE LET m1 == IF status = END THEN delete_clear(m, node) ELSE m
             m2 == delete_child_nibble(m1, node, child_byte)
         IN IF m2.node[node].children # 0
            THEN [m |-> m2, status |-> STOP]
            ELSE LET m3 == delete_node(m2, nibble, low) IN
                 IF m3.nibble[nibble].children # 0
                 THEN [m |-> m3, status |-> STOP]
                 ELSE [m |-> m3, status |-> CONTINUE]

\* What the caller does with the status of the recursive call.
delete_unwind(m, nibble, low, node, status, child_byte) ==
    IF status = STOP THEN [m |-> m, status |-> STOP]
    ELSE LET m1 == IF status = END THEN delete_clear(m, node) ELSE m IN
         IF status = END /\ m1.node[node].children # 0
         THEN [m |-> m1, status |-> STOP]
         ELSE LET m2 == delete_child_nibble(m1, node, child_byte) IN
              IF m2.node[node].children # 0
              THEN [m |-> m2, status |-> STOP]
              ELSE LET m3 == delete_node(m2, nibble, low) IN
                   IF m3.nibble[nibble].children # 0
                   THEN [m |-> m3, status |-> STOP]
                   ELSE [m |-> m3, status |-> CONTINUE]

\* owner holds the `nibbles` argument; byte0 is what *byte holds on entry.
\* fault: a null NibbleLayer or ByteNode is dereferenced (nothing has been
\* written yet: every write happens while the recursion unwinds).
RECURSIVE _gnt_delete_recursive(_, _, _, _, _)
_gnt_delete_recursive(m, owner, byte0, key, index) ==
    LET a == accessor(m.trie, key, index) IN
    IF a.status # 0
    THEN [m |-> m, status |-> END, byte |-> byte0, fault |-> FALSE]
    ELSE LET high == GNT_HIGH_NIBBLE(a.byte)
             low == GNT_LOW_NIBBLE(a.byte)
             nibble == NibblesOf(m, owner)[high]
         IN IF nibble = NULL
            THEN [m |-> m, status |-> STOP, byte |-> a.byte, fault |-> TRUE]
            ELSE LET node == m.nibble[nibble].nodes[low] IN
                 IF node = NULL
                 THEN [m |-> m, status |-> STOP, byte |-> a.byte, fault |-> TRUE]
                 ELSE LET r == _gnt_delete_recursive(m, node, 0, key, index + 1) IN
                      IF r.fault
                      THEN [m |-> m, status |-> STOP, byte |-> a.byte, fault |-> TRUE]
                      ELSE LET u == delete_unwind(r.m, nibble, low, node,
                                                  r.status, r.byte)
                           IN [m |-> u.m, status |-> u.status,
                               byte |-> a.byte, fault |-> FALSE]

\* Mutant: the status of the recursion is not compared with CONTINUE.
delete_root_always(m, status, child_byte) ==
    IF m.trie.children # 0
    THEN LET high == GNT_HIGH_NIBBLE(child_byte)
             m1 == free_nibble(m, m.trie.nibbles[high])
         IN [m1 EXCEPT !.trie.nibbles[high] = NULL,
                       !.trie.children = U8(@ - 1)]
    ELSE m

\* if (CONTINUE == ...) { if (trie->children) { free; slot = NULL; children--; } }
delete_root(m, status, child_byte) ==
    IF status = CONTINUE /\ m.trie.children # 0
    THEN LET high == GNT_HIGH_NIBBLE(child_byte)
             m1 == free_nibble(m, m.trie.nibbles[high])
         IN [m1 EXCEPT !.trie.nibbles[high] = NULL,
                       !.trie.children = U8(@ - 1)]
    ELSE m

\* child_byte of gnt_delete is not initialised: -1 stands for the
\* indeterminate value, which no slot index accepts.
gnt_delete(m, key) ==
    LET r == _gnt_delete_recursive(m, NULL, -1, key, 0) IN
    IF r.fault THEN [m |-> m, ret |-> 0, fault |-> TRUE]
    ELSE [m |-> delete_root(r.m, r.status, r.byte), ret |-> 0, fault |-> FALSE]

\* ------------------------------------------------------------ gnt_destroy
RECURSIVE _gnt_destroy_recursive_nibbles(_, _, _, _)
RECURSIVE _gnt_destroy_recursive_nodes(_, _, _, _)

\* the for loop from slot i on, `children` being the local counter
_gnt_destroy_recursive_nibbles(m, owner, children, i) ==
    IF children = 0 \/ i >= NSlots THEN m
    ELSE LET p == NibblesOf(m, owner)[i] IN
         IF p # NULL
         THEN LET m1 == _gnt_destroy_recursive_nodes(m, p, m.nibble[p].children, 0)
                  m2 == free_nibble(m1, p)
                  m3 == SetNibbleSlot(m2, owner, i, NULL)
              IN _gnt_destroy_recursive_nibbles(m3, owner, U8(children - 1), i + 1)
         ELSE _gnt_destroy_recursive_nibbles(m, owner, children, i + 1)

destroy_node(m, nib, i) ==
    LET p == m.nibble[nib].nodes[i]
        m1 == _gnt_destroy_recursive_nibbles(m, p, m.node[p].children, 0)
        m2 == IF m1.trie.deallocator THEN deallocator(m1, p) ELSE m1
        m3 == free_node(m2, p)
    IN [m3 EXCEPT !.nibble[nib].nodes[i] = NULL]

_gnt_destroy_recursive_nodes(m, nib, children, i) ==
    IF children = 0 \/ i >= NSlots THEN m
    ELSE IF m.nibble[nib].nodes[i] # NULL
         THEN _gnt_destroy_recursive_nodes(destroy_node(m, nib, i), nib,
                                           U8(children - 1), i + 1)
         ELSE _gnt_destroy_recursive_nodes(m, nib, children, i + 1)

gnt_destroy(m) ==
    [m |-> _gnt_destroy_recursive_nibbles(m, NULL, m.trie.children, 0),
     ret |-> 0]

\* ---------------------------------------------------------- state machine
VARIABLES
    mem,      \* the trie and its node graph, with the deallocator calls of the last operation
    status,   \* "live", "freed" after gnt_destroy, "fault" after a null dereference
    op,       \* the last public operation and its arguments
    ret,      \* what it returned
    stored,   \* history: the payload last inserted under each key and not deleted since (0: none)
    nops,     \* number of gnt_insert, gnt_delete and gnt_destroy calls so far
    mutex,    \* trie->mutex: 0 when unlocked, else the thread that holds it
    thr       \* per thread: the call it is in and the locals of that call

vars == <<mem, status, op, ret, stored, nops, mutex, thr>>

\* The threads of the guarded scenarios.
Threads == {1, 2}

\* A thread that is in no call.
IdleThread ==
    [pc |-> "idle", op |-> "none", key |-> NULL, data |-> 0,
     owner |-> NULL, nib |-> NULL, byte |-> 0, index |-> 0, ret |-> 0, n |-> 0]

\* The node graph without the record of deallocator calls.
Graph(m) == [trie |-> m.trie, nibble |-> m.nibble, node |-> m.node]

\* A new public operation starts with an empty record of deallocator calls.
Enter(m) == [m EXCEPT !.calls = <<>>]

Init ==
    /\ \E dealloc \in BOOLEAN : mem = gnt_create(dealloc)
    /\ status = "live"
    /\ op = [name |-> "create", key |-> NULL, data |-> 0]
    /\ ret = 0
    /\ stored = [k \in Keys |-> 0]
    /\ nops = 0
    /\ mutex = 0
    /\ thr = [t \in Threads |-> IdleThread]

Insert(key, data) ==
    /\ status = "live"
    /\ nops < MaxOps
    /\ LET r == gnt_insert(Enter(mem), key, data) IN
        /\ mem' = r.m
        /\ ret' = r.ret
    /\ op' = [name |-> "insert", key |-> key, data |-> data]
    /\ stored' = [stored EXCEPT ![key] = data]
    /\ nops' = nops + 1
    /\ UNCHANGED <<status, mutex, thr>>

Search(key) ==
    /\ status = "live"
    /\ LET r == search_call(Enter(mem), key) IN
        /\ mem' = r.m
        /\ ret' = r.ret
    /\ op' = [name |-> "search", key |-> key, data |-> 0]
    /\ UNCHANGED <<status, stored, nops, mutex, thr>>

Delete(key) ==
    /\ status = "live"
    /\ nops < MaxOps
    /\ LET r == gnt_delete(Enter(mem), key) IN
        /\ mem' = r.m
        /\ status' = IF r.fault THEN "fault" ELSE status
        /\ ret' = IF r.fault THEN ret ELSE r.ret
    /\ op' = [name |-> "delete", key |-> key, data |-> 0]
    /\ stored' = [stored EXCEPT ![key] = 0]
    /\ nops' = nops + 1
    /\ UNCHANGED <<mutex, thr>>

Destroy ==
    /\ status = "live"
    /\ nops < MaxOps
    /\ LET r == gnt_destroy(Enter(mem)) IN
        /\ mem' = r.m
        /\ ret' = r.ret
    /\ status' = "freed"
    /\ op' = [name |-> "destroy", key |-> NULL, data |-> 0]
    /\ stored' = [k \in Keys |-> 0]
    /\ nops' = nops + 1
    /\ UNCHANGED <<mutex, thr>>

Next ==
    \/ \E key \in Keys, data \in Data : Insert(key, data)
    \/ \E key \in Keys : Search(key)
    \/ \E key \in Keys : Delete(key)
    \/ Destroy

Spec == Init /\ [][Next]_vars

\* ------------------------------------------------------ null trie handle
\* The width of uintptr_t (gnt_data_t).  16 bits is the least the C standard
\* allows; the value of (gnt_data_t) -1 is non-zero at every width.
UintptrBits == 16

\* the conversion of a returned int to gnt_data_t
to_data(x) == x % (2 ^ UintptrBits)

\* if (!trie) return -1;  in gnt_insert, gnt_delete and gnt_destroy
null_status == 0 - 1

\* if (!trie) return -1;  in gnt_search, which returns a gnt_data_t
gnt_search_null == to_data(0 - 1)

\* Calls with trie = NULL are recorded in op under the names "insert_null",
\* "search_null", "delete_null" and "destroy_null".
NullCall(name, key, data, r) ==
    /\ status # "fault"
    /\ op' = [name |-> name, key |-> key, data |-> data]
    /\ ret' = r
    /\ UNCHANGED <<mem, status, stored, nops, mutex, thr>>

InsertNull(key, data) == NullCall("insert_null", key, data, null_status)
SearchNull(key) == NullCall("search_null", key, 0, gnt_search_null)
DeleteNull(key) == NullCall("delete_null", key, 0, null_status)
DestroyNull == NullCall("destroy_null", NULL, 0, null_status)

\* The bound on the calls with a valid handle in the null-handle scenarios.
MaxNullOps == 2

NextNull ==
    \/ nops < MaxNullOps /\ Next
    \/ \E key \in Keys, data \in Data : InsertNull(key, data)
    \/ \E key \in Keys : SearchNull(key)
    \/ \E key \in Keys : DeleteNull(key)
    \/ DestroyNull

SpecNull == Init /\ [][NextNull]_vars


\* ------------------------------------------------- default accessors
\* The integer keys of the accessor scenarios: every key up to MaxNumKey and
\* keys around the powers of 10 and 256 up to the greatest uintptr_t.
MaxNumKey == 300
MaxIndex == 5

NumKeys ==
    (0 .. MaxNumKey) \cup
    {999, 1000, 4095, 4096, 9999, 10000, 65279, 65280, 2 ^ UintptrBits - 1}

\* gnt_create(NULL), or with a cfg whose accessor is NULL
gnt_create_default(dealloc) ==
    [gnt_create(dealloc) EXCEPT !.trie.accessor = "default"]

\* gbt_create(NULL), or with a cfg whose accessor is NULL
gbt_create_default(dealloc) ==
    [gnt_create(dealloc) EXCEPT !.trie.accessor = "decimal"]

\* A trie with the default accessor and the integer key the calls are
\* about, kept in op.
InitAcc ==
    /\ \E dealloc \in BOOLEAN : mem = gnt_create_default(dealloc)
    /\ status = "live"
    /\ \E key \in NumKeys : op = [name |-> "create", key |-> key, data |-> 0]
    /\ ret = 0
    /\ stored = [k \in Keys |-> 0]
    /\ nops = 0
    /\ mutex = 0
    /\ thr = [t \in Threads |-> IdleThread]

\* A call of an accessor on the key, recorded in op with the index in the
\* data field and the returned status and *byte in ret.
AccessorCall(name, index, r) ==
    /\ status = "live"
    /\ op' = [name |-> name, key |-> op.key, data |-> index]
    /\ ret' = r
    /\ UNCHANGED <<mem, status, stored, nops, mutex, thr>>

GntDefault(index) ==
    AccessorCall("gnt_default", index, _gnt_accessor_default(op.key, index))

GbtDefault(index) ==
    AccessorCall("gbt_default", index, _gbt_accessor_default(op.key, index))

NextAcc ==
    \/ \E index \in 0 .. MaxIndex : GntDefault(index)
    \/ \E index \in 0 .. MaxIndex : GbtDefault(index)

SpecAcc == InitAcc /\ [][NextAcc]_vars

\* ------------------------------------------------- tries of integer keys
\* The integer keys inserted in the tries with a default accessor: as bytes
\* 1 is a prefix of 256 and 257, as decimal digits 1 is a prefix of 10, 11
\* and 100 and 10 one of 100.
NumTrieKeys == {0, 1, 10, 11, 100, 255, 256, 257}

\* The bound on the inserts in these tries.
MaxNumOps == 2

InitNum ==
    /\ \E dealloc \in BOOLEAN :
           mem \in {gnt_create_default(dealloc), gbt_create_default(dealloc)}
    /\ status = "live"
    /\ op = [name |-> "create", key |-> NULL, data |-> 0]
    /\ ret = 0
    /\ stored = [k \in NumTrieKeys |-> 0]
    /\ nops = 0
    /\ mutex = 0
    /\ thr = [t \in Threads |-> IdleThread]

NextNum ==
    \/ nops < MaxNumOps /\ \E key \in NumTrieKeys, data \in Data : Insert(key, data)
    \/ \E key \in NumTrieKeys : Search(key)

SpecNum == InitNum /\ [][NextNum]_vars

\* ------------------------------------------------------- zero-length key
\* The empty string: the accessor answers end-of-key at index 0.
EmptyKey == <<0>>

\* The bound on the calls with other keys in the zero-length scenarios.
MaxEmptyOps == 2

\* The values an uninitialized read can yield besides a payload of the trie.
Garbage == 0 .. 3

InitEmpty ==
    /\ \E dealloc \in BOOLEAN : mem = gnt_create(dealloc)
    /\ status = "live"
    /\ op = [name |-> "create", key |-> NULL, data |-> 0]
    /\ ret = 0
    /\ stored = [k \in Keys \cup {EmptyKey} |-> 0]
    /\ nops = 0
    /\ mutex = 0
    /\ thr = [t \in Threads |-> IdleThread]

\* gnt_insert with a key of length 0: the while loop is not entered and the
\* local `node` is never assigned, so node->occupied, node->data are accesses
\* through an uninitialized pointer.  The call faults, or the pointer lies
\* outside the trie and the call returns 0, or it holds the address of a
\* ByteNode of the trie, which receives the payload.
InsertEmpty(data) ==
    /\ status = "live"
    /\ accessor(mem.trie, EmptyKey, 0).status # 0
    /\ \/ /\ status' = "fault"
          /\ mem' = Enter(mem)
          /\ UNCHANGED ret
       \/ /\ mem' = Enter(mem)
          /\ ret' = 0
          /\ UNCHANGED status
       \/ /\ \E node \in DOMAIN mem.node :
                 mem' = insert_store(Enter(mem), node, data)
          /\ ret' = 0
          /\ UNCHANGED status
    /\ op' = [name |-> "insert_empty", key |-> EmptyKey, data |-> data]
    /\ stored' = [stored EXCEPT ![EmptyKey] = data]
    /\ UNCHANGED <<nops, mutex, thr>>

\* gnt_search with a key of length 0: `data = node->data` reads through the
\* uninitialized pointer.  The call faults, or returns whatever it read.
SearchEmpty ==
    /\ status = "live"
    /\ accessor(mem.trie, EmptyKey, 0).status # 0
    /\ \/ /\ status' = "fault"
          /\ UNCHANGED ret
       \/ /\ \E v \in Garbage : ret' = v
          /\ UNCHANGED status
       \/ /\ \E node \in DOMAIN mem.node : ret' = mem.node[node].data
          /\ UNCHANGED status
    /\ mem' = Enter(mem)
    /\ op' = [name |-> "search_empty", key |-> EmptyKey, data |-> 0]
    /\ UNCHANGED <<stored, nops, mutex, thr>>

\* gnt_delete with a key of length 0: the recursion returns END at index 0
\* and the root is left alone.
DeleteEmpty ==
    /\ status = "live"
    /\ LET r == gnt_delete(Enter(mem), EmptyKey) IN
        /\ mem' = r.m
        /\ status' = IF r.fault THEN "fault" ELSE status
        /\ ret' = IF r.fault THEN ret ELSE r.ret
    /\ op' = [name |-> "delete_empty", key |-> EmptyKey, data |-> 0]
    /\ stored' = [stored EXCEPT ![EmptyKey] = 0]
    /\ UNCHANGED <<nops, mutex, thr>>

NextEmpty ==
    \/ nops < MaxEmptyOps /\ Next
    \/ \E data \in Data : InsertEmpty(data)
    \/ SearchEmpty
    \/ DeleteEmpty

SpecEmpty == InitEmpty /\ [][NextEmpty]_vars

\* ------------------------------------------------------ failing calloc
\* nibbles[high_nibble] = calloc(..) returned NULL; (*children)++ follows
insert_nibble_oom(m, owner, high) ==
    LET m1 == SetNibbleSlot(m, owner, high, NULL)
    IN SetChildren(m1, owner, U8(ChildrenOf(m1, owner) + 1))

\* nodes[low_nibble] = calloc(..) returned NULL; (*children)++ follows
insert_node_oom(m, nib, low) ==
    [m EXCEPT !.nibble[nib].nodes[low] = NULL,
              !.nibble[nib].children = U8(@ + 1)]

\* The while loop of gnt_insert when only the next `left` callocs succeed.
\* The result of calloc is not tested: after a failed calloc the next access
\* goes through the null pointer (nibbles[high_nibble]->nodes, or the null
\* node's nibbles or occupied field), which is the fault.
RECURSIVE insert_walk_oom(_, _, _, _, _)
insert_walk_oom(m, owner, key, index, left) ==
    LET a == accessor(m.trie, key, index) IN
    IF a.status # 0 THEN [m |-> m, node |-> owner, fault |-> FALSE]
    ELSE LET high == GNT_HIGH_NIBBLE(a.byte)
             low == GNT_LOW_NIBBLE(a.byte)
             new1 == NibblesOf(m, owner)[high] = NULL
         IN IF new1 /\ left = 0
            THEN [m |-> insert_nibble_oom(m, owner, high), node |-> NULL,
                  fault |-> TRUE]
            ELSE LET m1 == insert_nibble(m, owner, high)
                     left1 == IF new1 THEN left - 1 ELSE left
                     nib == NibblesOf(m1, owner)[high]
                     new2 == m1.nibble[nib].nodes[low] = NULL
                 IN IF new2 /\ left1 = 0
                    THEN [m |-> insert_node_oom(m1, nib, low), node |-> NULL,
                          fault |-> TRUE]
                    ELSE LET m2 == insert_node(m1, nib, low, Append(owner, a.byte))
                             left2 == IF new2 THEN left1 - 1 ELSE left1
                         IN insert_walk_oom(m2, m2.nibble[nib].nodes[low],
                                            key, index + 1, left2)

gnt_insert_oom(m, key, data, left) ==
    LET w == insert_walk_oom(m, NULL, key, 0, left) IN
    IF w.fault THEN [m |-> w.m, ret |-> 0, fault |-> TRUE]
    ELSE [m |-> insert_store(w.m, w.node, data), ret |-> 0, fault |-> FALSE]

\* gnt_insert during which a calloc fails after `left` successful ones
InsertOom(key, data, left) ==
    /\ status = "live"
    /\ LET r == gnt_insert_oom(Enter(mem), key, data, left) IN
        /\ r.fault
        /\ mem' = r.m
    /\ status' = "fault"
    /\ op' = [name |-> "insert_oom", key |-> key, data |-> data]
    /\ nops' = nops + 1
    /\ UNCHANGED <<ret, stored, mutex, thr>>

\* The bound on the calls before the failing one.
MaxAllocOps == 2

NextAlloc ==
    \/ nops < MaxAllocOps /\ Next
    \/ \E key \in Keys, data \in Data, left \in 0 .. 5 : InsertOom(key, data, left)

SpecAlloc == Init /\ [][NextAlloc]_vars

\* ------------------------------------------------------- guarded threads
\* The bound on the calls each thread makes.
MaxCalls == 2

\* The keys each thread inserts in the scenario of pairwise disjoint keys:
\* "a", "ab" for thread 1 and "b", "aa" for thread 2 share NibbleLayers and
\* the ByteNode of "a".
ThreadKeys ==
    [t \in Threads |-> IF t = 1 THEN {<<97, 0>>, <<97, 98, 0>>}
                                ELSE {<<98, 0>>, <<97, 97, 0>>}]

MTKeys == UNION {ThreadKeys[t] : t \in Threads}

\* Mutant: the lock is taken without waiting for its holder.
mtx_lock_noblock(mx, t) == [ok |-> TRUE, mutex |-> t]

\* mtx_lock(&trie->mutex) by thread t: whether the call proceeds, and the
\* mutex after it
mtx_lock(mx, t) == [ok |-> mx = 0, mutex |-> t]

\* Mutant: the unlock leaves the mutex with its holder.
mtx_unlock_held(mx) == mx

\* mtx_unlock(&trie->mutex)
mtx_unlock(mx) == 0

\* nibbles[high_nibble] = calloc(1, sizeof(gnt_nibble_t)); (*children)++;
alloc_nibble(m, owner, high) ==
    LET p == Append(owner, high)
        m1 == [m EXCEPT !.nibble = (p :> calloc_nibble) @@ @]
        m2 == SetNibbleSlot(m1, owner, high, p)
    IN SetChildren(m2, owner, U8(ChildrenOf(m2, owner) + 1))

\* nodes[low_nibble] = calloc(1, sizeof(gnt_node_t)); (*children)++;
alloc_node(m, nib, low, p) ==
    LET m1 == [m EXCEPT !.node = (p :> calloc_node) @@ @]
    IN [m1 EXCEPT !.nibble[nib].nodes[low] = p,
                  !.nibble[nib].children = U8(@ + 1)]

\* The first statement of the body of each operation.
FirstPc(name) ==
    CASE name = "insert" -> "ins_nibble"
      [] name = "search" -> "srch_step"
      [] name = "delete" -> "del_body"

InsertPcs ==
    {"ins_nibble", "ins_nibble_new", "ins_node", "ins_node_new", "ins_next",
     "ins_store"}
SearchPcs == {"srch_step", "srch_data"}
DestroyPcs == {"dst_nodes", "dst_free"}

\* The positions between mtx_lock and mtx_unlock.
LockedPcs == InsertPcs \cup SearchPcs \cup {"del_body", "unlock"}

\* The positions at which a call reads or writes the trie.
BodyPcs == LockedPcs \cup DestroyPcs

\* The thread after its call returned r.
Returned(th, r) ==
    [IdleThread EXCEPT !.op = th.op, !.ret = r, !.n = th.n + 1]

\* The owner a thread holds is the root or an allocated ByteNode.
OwnerOk(m, th) == th.owner = NULL \/ th.owner \in DOMAIN m.node

\* The slot nibbles[high_nibble] of the thread's owner holds an allocated block.
SlotOk(m, th) ==
    /\ OwnerOk(m, th)
    /\ NibblesOf(m, th.owner)[GNT_HIGH_NIBBLE(th.byte)] \in DOMAIN m.nibble

\* Every block the next statement of thread th accesses is allocated; the
\* trie itself is, as long as status is "live".
Valid(m, st, th) ==
    /\ st = "live"
    /\ CASE th.pc \in {"ins_nibble", "ins_nibble_new"} -> OwnerOk(m, th)
         [] th.pc = "ins_node" -> SlotOk(m, th)
         [] th.pc = "ins_node_new" -> th.nib \in DOMAIN m.nibble
         [] th.pc = "ins_next" ->
                /\ th.nib \in DOMAIN m.nibble
                /\ m.nibble[th.nib].nodes[GNT_LOW_NIBBLE(th.byte)] \in DOMAIN m.node
         [] th.pc \in {"ins_store", "srch_data"} -> th.owner \in DOMAIN m.node
         [] th.pc = "srch_step" ->
                /\ OwnerOk(m, th)
                /\ LET a == accessor(m.trie, th.key, th.index)
                       nib == NibblesOf(m, th.owner)[GNT_HIGH_NIBBLE(a.byte)]
                   IN a.status = 0 /\ nib # NULL =>
                        /\ nib \in DOMAIN m.nibble
                        /\ LET n == m.nibble[nib].nodes[GNT_LOW_NIBBLE(a.byte)]
                           IN n = NULL \/ n \in DOMAIN m.node
         [] OTHER -> TRUE

\* while (0 == trie->accessor(&byte, key, index++)) { if (!nibbles[high_nibble])
ins_test_nibble(m, th) ==
    LET a == accessor(m.trie, th.key, th.index) IN
    IF a.status # 0
    THEN [th EXCEPT !.pc = "ins_store", !.index = @ + 1]
    ELSE [th EXCEPT !.byte = a.byte, !.index = @ + 1,
                    !.pc = IF NibblesOf(m, th.owner)[GNT_HIGH_NIBBLE(a.byte)] = NULL
                           THEN "ins_nibble_new" ELSE "ins_node"]

\* nodes = nibbles[high_nibble]->nodes; ... if (!nodes[low_nibble])
ins_test_node(m, th) ==
    LET nib == NibblesOf(m, th.owner)[GNT_HIGH_NIBBLE(th.byte)] IN
    [th EXCEPT !.nib = nib,
               !.pc = IF m.nibble[nib].nodes[GNT_LOW_NIBBLE(th.byte)] = NULL
                      THEN "ins_node_new" ELSE "ins_next"]

\* nibbles = nodes[low_nibble]->nibbles; node = nodes[low_nibble];
ins_next(m, th) ==
    [th EXCEPT !.owner = m.nibble[th.nib].nodes[GNT_LOW_NIBBLE(th.byte)],
               !.pc = "ins_nibble"]

\* Mutant: the early return of gnt_search without mtx_unlock.
search_miss_nounlock(th, mx) == [th |-> Returned(th, 0), mutex |-> mx]

\* { mtx_unlock(&trie->mutex); return 0; }
search_miss(th, mx) == [th |-> Returned(th, 0), mutex |-> mtx_unlock(mx)]

\* One turn of the while loop of gnt_search.
srch_step(m, th, mx) ==
    LET a == accessor(m.trie, th.key, th.index) IN
    IF a.status # 0
    THEN [th |-> [th EXCEPT !.pc = "srch_data", !.index = @ + 1], mutex |-> mx]
    ELSE LET nib == NibblesOf(m, th.owner)[GNT_HIGH_NIBBLE(a.byte)] IN
         IF nib = NULL THEN search_miss(th, mx)
         ELSE IF m.nibble[nib].nodes[GNT_LOW_NIBBLE(a.byte)] = NULL
              THEN search_miss(th, mx)
              ELSE [th |-> [th EXCEPT !.owner = m.nibble[nib].nodes[GNT_LOW_NIBBLE(a.byte)],
                                      !.index = @ + 1],
                    mutex |-> mx]

\* Thread t passes `if (!trie) return -1;` of gnt_insert, gnt_search or
\* gnt_delete and reaches mtx_lock.
TCall(t, name, key, data) ==
    /\ status = "live"
    /\ thr[t].pc = "idle"
    /\ thr[t].n < MaxCalls
    /\ thr' = [thr EXCEPT ![t] = [IdleThread EXCEPT !.pc = "lock", !.op = name,
                                                    !.key = key, !.data = data,
                                                    !.n = thr[t].n]]
    /\ UNCHANGED <<mem, status, op, ret, stored, nops, mutex>>

TLock(t) ==
    /\ status = "live"
    /\ thr[t].pc = "lock"
    /\ LET l == mtx_lock(mutex, t) IN
        /\ l.ok
        /\ mutex' = l.mutex
    /\ thr' = [thr EXCEPT ![t].pc = FirstPc(thr[t].op)]
    /\ mem' = Enter(mem)
    /\ UNCHANGED <<status, op, ret, stored, nops>>

\* A statement of thread t at position pc that leaves memory m and locals th.
TStep(t, pc, m, th) ==
    /\ thr[t].pc = pc
    /\ Valid(mem, status, thr[t])
    /\ mem' = m
    /\ thr' = [thr EXCEPT ![t] = th]
    /\ UNCHANGED <<status, op, ret, nops, mutex>>

TInsNibble(t) ==
    /\ TStep(t, "ins_nibble", mem, ins_test_nibble(mem, thr[t]))
    /\ UNCHANGED stored

TInsNibbleNew(t) ==
    /\ TStep(t, "ins_nibble_new",
             alloc_nibble(mem, thr[t].owner, GNT_HIGH_NIBBLE(thr[t].byte)),
             [thr[t] EXCEPT !.pc = "ins_node"])
    /\ UNCHANGED stored

TInsNode(t) ==
    /\ TStep(t, "ins_node", mem, ins_test_node(mem, thr[t]))
    /\ UNCHANGED stored

TInsNodeNew(t) ==
    /\ TStep(t, "ins_node_new",
             alloc_node(mem, thr[t].nib, GNT_LOW_NIBBLE(thr[t].byte),
                        Append(thr[t].owner, thr[t].byte)),
             [thr[t] EXCEPT !.pc = "ins_next"])
    /\ UNCHANGED stored

TInsNext(t) ==
    /\ TStep(t, "ins_next", mem, ins_next(mem, thr[t]))
    /\ UNCHANGED stored

TInsStore(t) ==
    /\ TStep(t, "ins_store", insert_store(mem, thr[t].owner, thr[t].data),
             [thr[t] EXCEPT !.pc = "unlock", !.ret = 0])
    /\ stored' = [stored EXCEPT ![thr[t].key] = thr[t].data]

TSearchStep(t) ==
    /\ thr[t].pc = "srch_step"
    /\ Valid(mem, status, thr[t])
    /\ LET r == srch_step(mem, thr[t], mutex) IN
        /\ thr' = [thr EXCEPT ![t] = r.th]
        /\ mutex' = r.mutex
    /\ UNCHANGED <<mem, status, op, ret, stored, nops>>

\* gnt_data_t data = node->data;
TSearchData(t) ==
    /\ TStep(t, "srch_data", mem,
             [thr[t] EXCEPT !.pc = "unlock", !.ret = mem.node[thr[t].owner].data])
    /\ UNCHANGED stored

\* The body of gnt_delete between mtx_lock and mtx_unlock.
TDeleteBody(t) ==
    /\ thr[t].pc = "del_body"
    /\ Valid(mem, status, thr[t])
    /\ LET r == gnt_delete(mem, thr[t].key) IN
        /\ mem' = r.m
        /\ status' = IF r.fault THEN "fault" ELSE status
        /\ thr' = IF r.fault THEN thr
                  ELSE [thr EXCEPT ![t].pc = "unlock", ![t].ret = r.ret]
    /\ stored' = [stored EXCEPT ![thr[t].key] = 0]
    /\ UNCHANGED <<op, ret, nops, mutex>>

\* mtx_unlock(&trie->mutex); return ...;
TUnlock(t) ==
    /\ thr[t].pc = "unlock"
    /\ Valid(mem, status, thr[t])
    /\ mutex' = mtx_unlock(mutex)
    /\ thr' = [thr EXCEPT ![t] = Returned(thr[t], thr[t].ret)]
    /\ UNCHANGED <<mem, status, op, ret, stored, nops>>

\* The statements of gnt_insert from mtx_lock on.
InsertBody(t) ==
    \/ TLock(t)
    \/ TInsNibble(t)
    \/ TInsNibbleNew(t)
    \/ TInsNode(t)
    \/ TInsNodeNew(t)
    \/ TInsNext(t)
    \/ TInsStore(t)
    \/ TUnlock(t)

\* Threads that only insert, each its own keys with its own payload.
NextMTI ==
    \E t \in Threads :
        \/ \E key \in ThreadKeys[t] : TCall(t, "insert", key, t)
        \/ InsertBody(t)

SpecMTI == Init /\ [][NextMTI]_vars

\* Every thread that can take a step of its call eventually does.
FairSpecMTI == SpecMTI /\ \A t \in Threads : WF_vars(InsertBody(t))

\* Threads that insert, search and delete any of the keys.
NextMT ==
    \E t \in Threads :
        \/ \E key \in MTKeys : TCall(t, "insert", key, t)
        \/ \E key \in MTKeys : TCall(t, "search", key, 0)
        \/ \E key \in MTKeys : TCall(t, "delete", key, 0)
        \/ InsertBody(t)
        \/ TSearchStep(t)
        \/ TSearchData(t)
        \/ TDeleteBody(t)

SpecMT == Init /\ [][NextMT]_vars

\* The statements of thread t from mtx_lock on, in any of the three calls.
ThreadRun(t) ==
    \/ InsertBody(t)
    \/ TSearchStep(t)
    \/ TSearchData(t)
    \/ TDeleteBody(t)

\* The keys of the scenario in which the calls are followed to their
\* return: "a" and its extension "ab".
LiveKeys == {<<97, 0>>, <<97, 98, 0>>}

\* Threads that insert, search and delete these keys.
NextMTL ==
    \E t \in Threads :
        \/ \E key \in LiveKeys : TCall(t, "insert", key, t)
        \/ \E key \in LiveKeys : TCall(t, "search", key, 0)
        \/ \E key \in LiveKeys : TCall(t, "delete", key, 0)
        \/ ThreadRun(t)

SpecMTL == Init /\ [][NextMTL]_vars

\* Thread t is about to run the body of gnt_delete: the condition under
\* which TDeleteBody(t) is enabled, and it always changes the state.
DeleteReady(t) == thr[t].pc = "del_body" /\ Valid(mem, status, thr[t])

\* Every thread that can take a step of its call eventually does: weak
\* fairness of the steps of gnt_insert and gnt_search, and weak fairness of
\* TDeleteBody(t) written out with its enabling condition.
FairSpecMTL ==
    /\ SpecMTL
    /\ \A t \in Threads :
          /\ WF_vars(InsertBody(t) \/ TSearchStep(t) \/ TSearchData(t))
          /\ ([]<>(~DeleteReady(t)) \/ []<><<TDeleteBody(t)>>_vars)

\* Thread t passes `if (!trie) return -1;` of gnt_destroy, which has no
\* mtx_lock.
TCallDestroy(t) ==
    /\ status = "live"
    /\ thr[t].pc = "idle"
    /\ thr[t].n < MaxCalls
    /\ thr' = [thr EXCEPT ![t] = [IdleThread EXCEPT !.pc = "dst_nodes",
                                                    !.op = "destroy",
                                                    !.n = thr[t].n]]
    /\ UNCHANGED <<mem, status, op, ret, stored, nops, mutex>>

\* _gnt_destroy_recursive_nibbles(trie->nibbles, trie->children, trie->deallocator);
TDestroyNodes(t) ==
    /\ TStep(t, "dst_nodes", gnt_destroy(mem).m, [thr[t] EXCEPT !.pc = "dst_free"])
    /\ stored' = [k \in Keys |-> 0]

\* mtx_destroy(&trie->mutex); free(trie); return 0;
TDestroyFree(t) ==
    /\ thr[t].pc = "dst_free"
    /\ Valid(mem, status, thr[t])
    /\ status' = "freed"
    /\ thr' = [thr EXCEPT ![t] = Returned(thr[t], 0)]
    /\ UNCHANGED <<mem, op, ret, stored, nops, mutex>>

\* The next statement of thread t accesses a freed block (or the freed trie):
\* the call faults, or it runs on stale memory and returns any result.
TUseAfterFree(t) ==
    /\ status # "fault"
    /\ thr[t].pc # "idle"
    /\ ~Valid(mem, status, thr[t])
    /\ \/ /\ status' = "fault"
          /\ UNCHANGED <<thr, mutex>>
       \/ /\ \E r \in {0} \cup Data : thr' = [thr EXCEPT ![t] = Returned(thr[t], r)]
          /\ mutex' = IF mutex = t THEN mtx_unlock(mutex) ELSE mutex
          /\ UNCHANGED status
    /\ UNCHANGED <<mem, op, ret, stored, nops>>

\* Threads that insert, search, delete and destroy.
NextMTD ==
    \/ NextMT
    \/ \E t \in Threads :
        \/ TCallDestroy(t)
        \/ TDestroyNodes(t)
        \/ TDestroyFree(t)
        \/ TUseAfterFree(t)

SpecMTD == Init /\ [][NextMTD]_vars

\* --------------------------------------------------------------- observers
\* The ByteNode the slots lead to for `key`, NULL when a link is missing.
RECURSIVE terminal_walk(_, _, _, _)
terminal_walk(m, owner, key, index) ==
    LET a == accessor(m.trie, key, index) IN
    IF a.status # 0 THEN owner
    ELSE LET nib == NibblesOf(m, owner)[GNT_HIGH_NIBBLE(a.byte)] IN
         IF nib = NULL THEN NULL
         ELSE IF nib \notin DOMAIN m.nibble THEN NULL
         ELSE LET n == m.nibble[nib].nodes[GNT_LOW_NIBBLE(a.byte)] IN
              IF n = NULL THEN NULL
              ELSE IF n \notin DOMAIN m.node THEN NULL
              ELSE terminal_walk(m, n, key, index + 1)

Terminal(m, key) == terminal_walk(m, NULL, key, 0)

\* key is present: its full path exists and its terminal ByteNode is occupied
Present(m, key) ==
    /\ Terminal(m, key) # NULL
    /\ m.node[Terminal(m, key)].occupied

NonNull(slots) == Cardinality({i \in Slots : slots[i] # NULL})

HeapEmpty(m) ==
    /\ DOMAIN m.nibble = {}
    /\ DOMAIN m.node = {}
    /\ m.trie.children = 0
    /\ \A i \in Slots : m.trie.nibbles[i] = NULL

\* every NibbleLayer and every ByteNode has been freed
NodesFreed(m) ==
    /\ DOMAIN m.nibble = {}
    /\ DOMAIN m.node = {}

\* key1 is a proper prefix of key2
ProperPrefix(key1, key2) ==
    /\ strlen(key1) < strlen(key2)
    /\ SubSeq(key2, 1, strlen(key1)) = KeyBytes(key1)

\* The payload stored under each key of the trie (0: the key is not present).
Contents(m) ==
    [k \in Keys |-> IF Present(m, k) THEN m.node[Terminal(m, k)].data ELSE 0]

\* The trie made by gnt_create and one gnt_insert per key of c that has a
\* payload: the keys of ks are still to be inserted into m.
RECURSIVE fresh_inserts(_, _, _)
fresh_inserts(m, c, ks) ==
    IF ks = {} THEN m
    ELSE LET k == CHOOSE x \in ks : TRUE
             m1 == IF c[k] # 0 THEN gnt_insert(m, k, c[k]).m ELSE m
         IN fresh_inserts(m1, c, ks \ {k})

Fresh(dealloc, c) == Enter(fresh_inserts(gnt_create(dealloc), c, Keys))

\* The number of units of `key` in base `base`: the least n >= 1 with
\* key < base^n.
UnitLen(base, key) ==
    CHOOSE n \in 1 .. UintptrBits : key < base ^ n /\ (n = 1 \/ key >= base ^ (n - 1))

\* The i-th unit of `key` in base `base`, most significant first.
Unit(base, key, i) == (key \div (base ^ (UnitLen(base, key) - 1 - i))) % base

\* What an accessor of base `base` answers for `key` at `index`.
UnitAnswer(base, key, index) ==
    IF index < UnitLen(base, key)
    THEN [status |-> 0, byte |-> Unit(base, key, index)]
    ELSE [status |-> 0 - 1, byte |-> NULL]

\* The units the accessor of trie t yields for `key` from `index` on, up to
\* the end-of-key answer.
RECURSIVE UnitsFrom(_, _, _)
UnitsFrom(t, key, index) ==
    LET a == accessor(t, key, index) IN
    IF a.status # 0 THEN <<>>
    ELSE <<a.byte>> \o UnitsFrom(t, key, index + 1)

\* Distinct integer keys have distinct unit sequences under the accessor of
\* trie t.
Injective(t) ==
    LET u == [k \in NumKeys |-> UnitsFrom(t, k, 0)] IN
    \A k1 \in NumKeys, k2 \in NumKeys : k1 < k2 => u[k1] # u[k2]

\* The number of occupied ByteNodes that hold payload d.
HeldCount(m, d) ==
    Cardinality({n \in DOMAIN m.node : m.node[n].occupied /\ m.node[n].data = d})

\* The number of deallocator calls of the last operation with payload d.
CallCount(m, d) ==
    Cardinality({i \in 1 .. Len(m.calls) : m.calls[i].data = d})

\* The number of activations of _gnt_delete_recursive in gnt_delete(key):
\* each one that gets a byte and finds its ByteNode calls itself once.
RECURSIVE delete_depth(_, _, _, _)
delete_depth(m, owner, key, index) ==
    LET a == accessor(m.trie, key, index) IN
    IF a.status # 0 THEN 1
    ELSE LET nibble == NibblesOf(m, owner)[GNT_HIGH_NIBBLE(a.byte)] IN
         IF nibble = NULL THEN 1
         ELSE LET node == m.nibble[nibble].nodes[GNT_LOW_NIBBLE(a.byte)] IN
              IF node = NULL THEN 1
              ELSE 1 + delete_depth(m, node, key, index + 1)

\* No thread is inside a call.
AllIdle == \A t \in Threads : thr[t].pc = "idle"

\* the step is a call gnt_insert(trie, key, data)
IsInsert(key, data) ==
    /\ nops' = nops + 1
    /\ op' = [name |-> "insert", key |-> key, data |-> data]

\* the step is a call gnt_delete(trie, key)
IsDelete(key) ==
    /\ nops' = nops + 1
    /\ op' = [name |-> "delete", key |-> key, data |-> 0]

\* the step is a call gnt_search(trie, key)
IsSearch(key) ==
    /\ nops' = nops
    /\ op' = [name |-> "search", key |-> key, data |-> 0]

\* the step is a call gnt_destroy(trie)
IsDestroy ==
    /\ nops' = nops + 1
    /\ op'.name = "destroy"

\* ------------------------------------------------------------------ claims

\* C1: after gnt_insert(key, data), gnt_search(key) returns data and
\* gnt_search of every other key returns what it returned before the insert,
\* also when one key is a proper prefix of the other.
C1_InsertThenSearch ==
    [][\A key \in Keys, data \in Data :
        IsInsert(key, data) =>
            /\ ret' = 0
            /\ gnt_search(mem', key) = data
            /\ \A k2 \in Keys \ {key} :
                   gnt_search(mem', k2) = gnt_search(mem, k2)]_vars

\* C1 witness: "ab" was just inserted below the stored key "a", and both
\* searches return the payload last inserted.
C1_Witness ==
    /\ op.name = "insert"
    /\ \E k \in Keys :
        /\ ProperPrefix(k, op.key)
        /\ stored[k] # 0
        /\ stored[k] # op.data
        /\ gnt_search(mem, k) = stored[k]
    /\ gnt_search(mem, op.key) = op.data

\* C2 (as claimed): gnt_delete(k2) of a present key leaves every other
\* present key k1 present with its payload.
C2_DeleteKeepsOtherKeys ==
    [][\A k2 \in Keys :
        (IsDelete(k2) /\ Present(mem, k2)) =>
            \A k1 \in Keys \ {k2} :
                Present(mem, k1) =>
                    /\ Present(mem', k1)
                    /\ gnt_search(mem', k1) = gnt_search(mem, k1)]_vars

\* C3: gnt_delete of a present key returns 0 and gnt_search of that key
\* then returns 0, whatever other keys are stored.
C3_DeleteThenSearch ==
    [][\A key \in Keys :
        (IsDelete(key) /\ Present(mem, key)) =>
            /\ status' = "live"
            /\ ret' = 0
            /\ gnt_search(mem', key) = 0]_vars

\* C3 witness: a stored key was deleted (its payload went to the
\* deallocator), its node is kept for a deeper key, and its search returns 0.
C3_Witness ==
    /\ op.name = "delete"
    /\ status = "live"
    /\ Len(mem.calls) = 1
    /\ mem.calls[1].data \in Data
    /\ Terminal(mem, op.key) # NULL
    /\ \E k \in Keys : ProperPrefix(op.key, k) /\ Present(mem, k)
    /\ gnt_search(mem, op.key) = 0

\* C4 (as claimed): gnt_delete of a key that is not present returns 0,
\* leaves the node graph as it was and does not call the deallocator.
C4_DeleteAbsentNoOp ==
    [][\A key \in Keys :
        (IsDelete(key) /\ ~Present(mem, key)) =>
            /\ status' = "live"
            /\ ret' = 0
            /\ Graph(mem') = Graph(mem)
            /\ mem'.calls = <<>>]_vars

\* C5 (as claimed): the gnt_delete that removes the last key still stored
\* (every other inserted key has been deleted before) completes and leaves
\* no NibbleLayer, no ByteNode and a root child count of 0.
C5_AllDeletedEmpty ==
    [][\A key \in Keys :
        (/\ IsDelete(key)
         /\ stored[key] # 0
         /\ \A k2 \in Keys \ {key} : stored[k2] = 0) =>
            /\ status' = "live"
            /\ HeapEmpty(mem')]_vars

\* C6: after any sequence of gnt_insert and gnt_delete calls (the trie has
\* not been destroyed) the children field of the root, of every NibbleLayer
\* and of every ByteNode is the number of non-null slots of its array.
C6_ChildrenExact ==
    status # "freed" =>
        /\ mem.trie.children = NonNull(mem.trie.nibbles)
        /\ \A p \in DOMAIN mem.nibble :
               mem.nibble[p].children = NonNull(mem.nibble[p].nodes)
        /\ \A n \in DOMAIN mem.node :
               mem.node[n].children = NonNull(mem.node[n].nibbles)

\* C6 witness: a delete pruned a node out of a NibbleLayer that keeps
\* another node, below a ByteNode that has two NibbleLayers.
C6_Witness ==
    /\ op.name = "delete"
    /\ status = "live"
    /\ Terminal(mem, op.key) = NULL
    /\ \E n \in DOMAIN mem.node : mem.node[n].children = 2
    /\ \E p \in DOMAIN mem.nibble : mem.nibble[p].children = 1

\* C7: between public operations every ByteNode is occupied or has a
\* non-null slot, and every NibbleLayer has a non-null slot.
C7_NoUselessNode ==
    /\ \A n \in DOMAIN mem.node :
           mem.node[n].occupied \/ NonNull(mem.node[n].nibbles) > 0
    /\ \A p \in DOMAIN mem.nibble : NonNull(mem.nibble[p].nodes) > 0

\* C7 witness: a delete freed the terminal node of its key and the trie
\* still holds nodes.
C7_Witness ==
    /\ op.name = "delete"
    /\ status = "live"
    /\ mem.calls # <<>>
    /\ mem.calls[1].data \in Data
    /\ Terminal(mem, op.key) = NULL
    /\ DOMAIN mem.node # {}

\* The number of deallocator calls made for ByteNode n with payload d.
Calls(m, n, d) ==
    Cardinality({i \in 1 .. Len(m.calls) : m.calls[i] = [node |-> n, data |-> d]})

\* C8 (as claimed): gnt_destroy with a deallocator calls it once per
\* occupied ByteNode, with the stored payload, never for a ByteNode that is
\* not occupied, and frees every block once.
C8_DestroyDeallocatesOccupied ==
    [][(IsDestroy /\ mem.trie.deallocator) =>
        /\ \A n \in DOMAIN mem.node :
               IF mem.node[n].occupied
               THEN Calls(mem', n, mem.node[n].data) = 1
               ELSE \A i \in 1 .. Len(mem'.calls) : mem'.calls[i].node # n
        /\ Len(mem'.calls) = Cardinality({n \in DOMAIN mem.node : mem.node[n].occupied})
        /\ NodesFreed(mem')
        /\ ~mem'.badfree]_vars

\* C9: with a deallocator, gnt_insert over a present key calls it exactly
\* once, with the payload stored before the insert; gnt_insert of a key that
\* is not present does not call it.
C9_OverwriteDeallocatesOld ==
    [][\A key \in Keys, data \in Data :
        (IsInsert(key, data) /\ mem.trie.deallocator) =>
            mem'.calls =
                IF Present(mem, key)
                THEN <<[node |-> Terminal(mem, key),
                        data |-> mem.node[Terminal(mem, key)].data]>>
                ELSE <<>>]_vars

\* C9 witness: an insert replaced a different payload, which went to the
\* deallocator, and the new payload is stored.
C9_Witness ==
    /\ op.name = "insert"
    /\ mem.trie.deallocator
    /\ Len(mem.calls) = 1
    /\ mem.calls[1].node = Terminal(mem, op.key)
    /\ mem.calls[1].data \in Data \ {op.data}
    /\ gnt_search(mem, op.key) = op.data

\* C10: gnt_search returns 0 for every key that is not stored (never
\* inserted, or deleted since its last insert).
C10_SearchAbsent ==
    status = "live" =>
        \A key \in Keys : stored[key] = 0 => gnt_search(mem, key) = 0

\* C10 witness: a deleted key and a never inserted key both still have
\* their ByteNodes on the path of a deeper stored key; a third key has none.
C10_Witness ==
    /\ status = "live"
    /\ op.name = "delete"
    /\ Terminal(mem, op.key) # NULL
    /\ mem.calls # <<>>
    /\ mem.calls[1].data \in Data
    /\ \E k \in Keys :
        /\ ProperPrefix(k, op.key)
        /\ stored[k] = 0
        /\ Terminal(mem, k) # NULL
    /\ \E k \in Keys : Terminal(mem, k) = NULL
    /\ \A k \in Keys : stored[k] = 0 => gnt_search(mem, k) = 0

\* C11 (as claimed): gnt_search with a null trie handle returns 0.
C11_SearchNullReturnsZero ==
    op.name = "search_null" => ret = 0

\* C12 (as claimed): gnt_insert, gnt_delete and gnt_destroy return -1 when
\* the handle is null, touching neither the trie nor the mutex, and return 0
\* in every call with a valid handle.
C12_StatusByHandle ==
    [][/\ (op' # op /\ op'.name \in {"insert_null", "delete_null", "destroy_null"}) =>
            /\ ret' = 0 - 1
            /\ UNCHANGED <<mem, status, stored, mutex, thr>>
       /\ (nops' = nops + 1) =>
            /\ status' # "fault"
            /\ ret' = 0]_vars

\* C13 (as claimed): a gnt_insert during which a calloc fails returns a
\* failure result, and every children field still equals the number of
\* non-null slots of its array.
C13_AllocFailureReported ==
    [][op'.name = "insert_oom" /\ nops' = nops + 1 =>
        /\ status' = "live"
        /\ ret' # 0
        /\ mem'.trie.children = NonNull(mem'.trie.nibbles)
        /\ \A p \in DOMAIN mem'.nibble :
               mem'.nibble[p].children = NonNull(mem'.nibble[p].nodes)
        /\ \A n \in DOMAIN mem'.node :
               mem'.node[n].children = NonNull(mem'.node[n].nibbles)]_vars

\* C14 (as claimed): in every state S where key is present, gnt_delete(key)
\* followed by gnt_insert(key, w) gives the node graph that gnt_insert(key, w)
\* gives on a trie freshly built from the other keys of S; the re-insert
\* makes no deallocator call and gnt_search(key) returns w.
C14_ReinsertAsFresh ==
    status = "live" =>
        \A key \in Keys, w \in Data :
            Present(mem, key) =>
                LET d == gnt_delete(Enter(mem), key)
                    r == gnt_insert(Enter(d.m), key, w)
                    others == [Contents(mem) EXCEPT ![key] = 0]
                    f == gnt_insert(Fresh(mem.trie.deallocator, others), key, w)
                IN /\ ~d.fault
                   /\ Graph(r.m) = Graph(f.m)
                   /\ r.m.calls = <<>>
                   /\ gnt_search(r.m, key) = w

\* C18: gnt_search of any key leaves the node graph (slots, child counts,
\* occupied flags, payloads, allocated blocks) as it was and makes no
\* deallocator call.
C18_SearchChangesNothing ==
    [][\A key \in Keys :
        IsSearch(key) =>
            /\ Graph(mem') = Graph(mem)
            /\ mem'.calls = <<>>
            /\ ~mem'.badfree
            /\ status' = status
            /\ ret' = gnt_search(mem, key)]_vars

\* C18 witness: a search found the payload of a key whose path continues
\* to a deeper key, in a trie that also lacks some key.
C18_Witness ==
    /\ op.name = "search"
    /\ ret \in Data
    /\ Present(mem, op.key)
    /\ \E k \in Keys : ProperPrefix(op.key, k) /\ Present(mem, k)
    /\ \E k \in Keys : Terminal(mem, k) = NULL

\* C19: gnt_delete of a present key whose terminal ByteNode has children
\* frees nothing and changes no child count: it passes the payload to the
\* deallocator (if any), resets the payload and the occupied flag of that
\* node, and every other key keeps its search result.
C19_DeleteInnerKeepsStructure ==
    [][\A key \in Keys :
        (/\ IsDelete(key)
         /\ Present(mem, key)
         /\ mem.node[Terminal(mem, key)].children # 0) =>
            LET n == Terminal(mem, key) IN
            /\ status' = "live"
            /\ ret' = 0
            /\ Graph(mem') = Graph([mem EXCEPT !.node[n].data = 0,
                                               !.node[n].occupied = FALSE])
            /\ mem'.calls = IF mem.trie.deallocator
                            THEN <<[node |-> n, data |-> mem.node[n].data]>>
                            ELSE <<>>
            /\ \A k2 \in Keys \ {key} :
                   gnt_search(mem', k2) = gnt_search(mem, k2)]_vars

\* C19 witness: "ab" was deleted between its stored prefix "a" and its
\* stored extension "aba"; its node is kept, not occupied.
C19_Witness ==
    /\ op.name = "delete"
    /\ status = "live"
    /\ Terminal(mem, op.key) # NULL
    /\ ~mem.node[Terminal(mem, op.key)].occupied
    /\ mem.node[Terminal(mem, op.key)].children # 0
    /\ Len(mem.calls) = 1
    /\ mem.calls[1].data \in Data
    /\ \E k \in Keys : ProperPrefix(k, op.key) /\ Present(mem, k)
    /\ \E k \in Keys : ProperPrefix(op.key, k) /\ Present(mem, k)

\* C20: in gnt_delete of a present key the recursion returns CONTINUE to
\* the root exactly when the NibbleLayer of the key's first byte has no node
\* left; the root then frees that NibbleLayer only, nulls its slot and
\* decrements its child count by one; otherwise the root is unchanged.
C20_RootPrune ==
    [][\A key \in Keys :
        (IsDelete(key) /\ Present(mem, key)) =>
            LET r == _gnt_delete_recursive(Enter(mem), NULL, 0 - 1, key, 0)
                high == GNT_HIGH_NIBBLE(key[1])
                top == mem.trie.nibbles[high]
            IN /\ ~r.fault
               /\ top \in DOMAIN r.m.nibble
               /\ (r.status = CONTINUE) <=> (NonNull(r.m.nibble[top].nodes) = 0)
               /\ (r.status = CONTINUE) =>
                    /\ r.m.nibble[top].children = 0
                    /\ mem'.trie.nibbles = [mem.trie.nibbles EXCEPT ![high] = NULL]
                    /\ mem'.trie.children = mem.trie.children - 1
                    /\ DOMAIN mem'.nibble = (DOMAIN r.m.nibble) \ {top}
                    /\ DOMAIN mem'.node = DOMAIN r.m.node
               /\ (r.status # CONTINUE) =>
                    /\ mem'.trie = mem.trie
                    /\ Graph(mem') = Graph(r.m)]_vars

\* C20 witness: a delete emptied the top-level NibbleLayer of its key, whose
\* root slot is now null, while the root keeps another NibbleLayer.
C20_Witness ==
    /\ op.name = "delete"
    /\ status = "live"
    /\ mem.calls # <<>>
    /\ mem.calls[1].data \in Data
    /\ mem.trie.nibbles[GNT_HIGH_NIBBLE(op.key[1])] = NULL
    /\ mem.trie.children = 1
    /\ NonNull(mem.trie.nibbles) = 1

\* C15: when the threads concurrently insert pairwise disjoint keys in the
\* guarded trie, every call completes and, whenever no call is in progress,
\* the trie holds exactly the keys inserted so far, each with the payload of
\* the thread that inserted it, in the node graph (slots and child counts)
\* that the same inserts build one after the other.
C15_ConcurrentInserts ==
    /\ [](AllIdle =>
            /\ status = "live"
            /\ mutex = 0
            /\ Contents(mem) = stored
            /\ \A key \in Keys :
                   Contents(mem)[key] # 0 =>
                       \E t \in Threads : key \in ThreadKeys[t] /\ Contents(mem)[key] = t
            /\ Graph(mem) = Graph(Fresh(mem.trie.deallocator, stored)))
    /\ \A t \in Threads : (thr[t].pc # "idle") ~> (thr[t].pc = "idle")

\* C15 witness: both threads have inserted all their keys; the NibbleLayer
\* under the ByteNode of "a" holds a node of each thread.
C15_Witness ==
    /\ AllIdle
    /\ \A t \in Threads : thr[t].n >= 2
    /\ \A t \in Threads : \A key \in ThreadKeys[t] : Contents(mem)[key] = t
    /\ mem.nibble[<<97, 6>>].children = 2

\* C16: a thread inside the body of gnt_insert, gnt_search, gnt_delete or
\* gnt_destroy holds the mutex of the trie, and no other thread is inside
\* such a body at the same time.
C16_BodiesUnderMutex ==
    \A t \in Threads :
        thr[t].pc \in BodyPcs =>
            /\ mutex = t
            /\ \A u \in Threads \ {t} : thr[u].pc \notin BodyPcs

\* C17: in every step of the guarded gnt_insert, gnt_search and gnt_delete,
\* a thread takes the mutex only when it is free and the thread waits in
\* mtx_lock (never while it holds it already), a thread between mtx_lock and
\* mtx_unlock holds it, and a call that returns held the mutex and has
\* released it, on the early not-found returns of gnt_search too.
C17_LockReleasedOnReturn ==
    [][\A t \in Threads :
        /\ (mutex' = t /\ mutex # t) => (mutex = 0 /\ thr[t].pc = "lock")
        /\ (thr'[t].pc \in LockedPcs) => mutex' = t
        /\ (thr'[t].pc \in {"idle", "lock"}) => mutex' # t
        /\ (thr'[t].pc = "idle" /\ thr[t].pc # "idle") =>
               (mutex = t /\ mutex' = 0)]_vars

\* C17 witness: a search of a trie that holds some key has returned
\* not-found and the mutex is free while the other thread waits for it.
C17_Witness ==
    \E t \in Threads :
        /\ thr[t].pc = "idle"
        /\ thr[t].op = "search"
        /\ thr[t].ret = 0
        /\ mem.trie.children # 0
        /\ mutex = 0
        /\ \E u \in Threads : thr[u].pc = "lock"

\* C21: the default accessor of gnt answers at index i the i-th base-256
\* byte of the key and that of gbt the i-th decimal digit, most significant
\* first, with no leading zero unit and the single unit 0 for key 0:
\* success below the key's length, end-of-key (-1) at and beyond it.
C21_DefaultAccessorUnits ==
    /\ op.name = "gnt_default" =>
          /\ ret = UnitAnswer(256, op.key, op.data)
          /\ ret = _gnt_accessor_default(op.key, op.data)
          /\ (op.data = 0) => (ret.status = 0 /\ (ret.byte = 0 <=> op.key = 0))
    /\ op.name = "gbt_default" =>
          /\ ret = UnitAnswer(10, op.key, op.data)
          /\ ret = _gbt_accessor_default(op.key, op.data)
          /\ (op.data = 0) => (ret.status = 0 /\ (ret.byte = 0 <=> op.key = 0))

\* C21 witness: the second byte of 4096 = 0x1000 is the unit 0.
C21_Witness ==
    /\ op.name = "gnt_default"
    /\ op.key = 4096
    /\ op.data = 1
    /\ ret = [status |-> 0, byte |-> 0]

C23_PayloadReleasedOnce ==
    [][(/\ mem.trie.deallocator
        /\ nops' = nops + 1
        /\ op'.name \in {"insert", "delete", "destroy"}
        /\ op'.name = "delete" => Present(mem, op'.key)) =>
            /\ status' # "fault"
            /\ op'.name = "destroy" => \A d \in Data : HeldCount(mem', d) = 0
            /\ \A d \in Data :
                   HeldCount(mem, d)
                     + (IF op'.name = "insert" /\ op'.data = d THEN 1 ELSE 0)
                   = HeldCount(mem', d) + CallCount(mem', d)]_vars

\* C24: a call of gnt_insert, gnt_search or gnt_delete with the zero-length
\* key completes without a fault and leaves every other key with its search
\* result; gnt_search of the zero-length key returns 0 when that key was not
\* inserted.
C24_ZeroLengthKeyDefined ==
    [][op'.name \in {"insert_empty", "search_empty", "delete_empty"} =>
          /\ status' = "live"
          /\ \A k \in Keys : gnt_search(mem', k) = gnt_search(mem, k)
          /\ (op'.name = "search_empty" /\ stored[EmptyKey] = 0) => ret' = 0]_vars

\* C25: under the default accessor of a trie (base-256 bytes in gnt, decimal
\* digits in gbt) distinct integer keys have distinct unit sequences (the
\* accessor of a trie never changes, so this is tested when the trie is
\* created), distinct keys on the trie have distinct terminal ByteNodes, and
\* every key holds the payload last inserted under that very key.
C25_NumericKeysDistinct ==
    LET term == [k \in NumTrieKeys |-> Terminal(mem, k)] IN
    /\ mem.trie.accessor \in {"default", "decimal"}
    /\ op.name = "create" => Injective(mem.trie)
    /\ \A k1 \in NumTrieKeys, k2 \in NumTrieKeys :
          (k1 < k2 /\ term[k1] # NULL) => term[k1] # term[k2]
    /\ \A k \in NumTrieKeys :
          /\ term[k] # NULL => term[k] = UnitsFrom(mem.trie, k, 0)
          /\ gnt_search(mem, k) = stored[k]

\* C25 witness: 1 and 10 are both stored in the decimal trie with different
\* payloads, 1 on the path of 10, and the search of 1 returned its own.
C25_Witness ==
    /\ mem.trie.accessor = "decimal"
    /\ op.name = "search"
    /\ op.key = 1
    /\ stored[1] # 0
    /\ stored[10] # 0
    /\ stored[10] # stored[1]
    /\ ret = stored[1]
    /\ Terminal(mem, 10) = <<1, 0>>

====
